---------------------------- MODULE Spec2Model ----------------------------
(***************************************************************************)
(* TideTool (src/tools/tide_tool/main.py): hourly sea level and high/low   *)
(* tide extremes, fetched from the Stormglass provider, with a synthetic   *)
(* semidiurnal sine wave as the fallback on HTTP 402.                      *)
(*                                                                         *)
(* Time is counted in whole seconds since the Unix epoch.  TLC has no      *)
(* reals: a height h = sin(2*pi*seconds/period) is stored as the phase     *)
(* angle asin(h)*period/(2*pi), in seconds of phase, an integer in         *)
(* -period/4 .. period/4.  sin is strictly increasing on that range, so    *)
(* two stored heights are equal (ordered) exactly when the sines are,      *)
(* the rounding of floating point left aside.                              *)
(***************************************************************************)
EXTENDS Integers, Sequences, FiniteSets

VARIABLES
    clock,      \* the wall clock read by dt.datetime.now, seconds since epoch
    pc,         \* "idle", "sea_level_request", "extremes_request", "done"
    op,         \* the function called: "none", "get_tide_sea_level",
                \* "get_tide_extremes", "_sine_wave_tide"
    lat, lon,   \* the call's coordinates
    arg,        \* the call's hours (sea level) or days (extremes)
    now,        \* the instant the running call read from the clock
    params,     \* the query parameters of the request in flight
    requests,   \* outbound GETs issued by the running call
    answer,     \* what came of the GET: "none", "data", "http_error",
                \* "connection_error", "timeout"
    status,     \* the HTTP status the provider answered (0: none)
    rows,       \* the number of rows the provider sent (0: none)
    outcome,    \* "none", "returned", "AssertionError", "HTTPError",
                \* "ConnectionError", "Timeout"
    result,     \* the value returned (<<>> when none)
    levels,     \* the series under the extremum scan
    times,      \* its timestamps
    idx,        \* the scan's loop index i (0-based, as in the source)
    extremes,   \* the events the scan has appended so far
    scanPc      \* "off", "scanning", "scanned"

scanVars == <<levels, times, idx, extremes, scanPc>>
vars == <<clock, pc, op, lat, lon, arg, now, params, requests, answer, status, rows,
          outcome, result,
          levels, times, idx, extremes, scanPc>>

----------------------------------------------------------------------------
(* Program constants *)

MinHours == 1
MaxHours == 240
MinDays == 1
MaxDays == 10
HoursPerDay == 24
SecondsPerHour == 3600
SecondsPerDay == 86400
\* period = 12.42 * 3600 seconds
Period == 44712
PaymentRequired == 402
RequestTimeout == 10

(* Bounds of the model *)

\* hours and days are drawn from this far outside the accepted range
ArgSlack == 2
\* the provider sends at most this many rows
MaxRows == 3
\* the first instant of the clock
ClockStart == 9378
\* the clock advances at most this many half hours
MaxTicks == 3
\* waves of at most this many samples are compared with a returned wave
CmpHours == 3
\* series handed to the extremum scan have at most this many samples
MaxSeries == 5
\* and their samples are among 0 .. MaxLevel
MaxLevel == 2

Min(a, b) == IF a <= b THEN a ELSE b

----------------------------------------------------------------------------
(* Timestamps *)

\* t.isoformat(): date, hour of the day, and the minutes and seconds
isoformat(t) ==
    <<t \div SecondsPerDay, (t % SecondsPerDay) \div SecondsPerHour, t % SecondsPerHour>>

\* t.strftime("%Y-%m-%dT%H"): date and hour, the rest dropped
strftime_hour(t) == <<t \div SecondsPerDay, (t % SecondsPerDay) \div SecondsPerHour>>

\* t.strftime("%Y-%m-%d"): the date alone
strftime_date(t) == <<t \div SecondsPerDay>>

\* the instant an isoformat timestamp denotes
Instant(s) == s[1] * SecondsPerDay + s[2] * SecondsPerHour + s[3]

----------------------------------------------------------------------------
(* The synthetic wave *)

\* math.sin(2 * math.pi * (seconds / period)), as the phase angle of the height
SineLevel(seconds) ==
    LET p == seconds % Period
    IN  IF 4 * p <= Period THEN p
        ELSE IF 4 * p <= 3 * Period THEN Period \div 2 - p
        ELSE p - Period

\* t = start_dt + dt.timedelta(hours=h)
SampleTime(start_dt, h) == start_dt + h * SecondsPerHour

\* variant: the first sample one hour after start_dt
SineWaveFromNextHour(hours, start_dt) ==
    [time      |-> [k \in 1..hours |-> isoformat(SampleTime(start_dt, k))],
     sea_level |-> [k \in 1..hours |-> SineLevel(SampleTime(start_dt, k))]]

\* variant: the phase counted from start_dt instead of the epoch
SineWaveFromStart(hours, start_dt) ==
    [time      |-> [k \in 1..hours |-> isoformat(SampleTime(start_dt, k - 1))],
     sea_level |-> [k \in 1..hours |-> SineLevel(SampleTime(0, k - 1))]]

_sine_wave_tide(hours, start_dt) ==
    [time      |-> [k \in 1..hours |-> isoformat(SampleTime(start_dt, k - 1))],
     sea_level |-> [k \in 1..hours |-> SineLevel(SampleTime(start_dt, k - 1))]]

----------------------------------------------------------------------------
(* The extremum scan.  Indices i are 0-based as in the source: levels[i]   *)
(* is lv[i + 1].                                                           *)

\* variant: either neighbour suffices
IsHighEither(lv, i) == lv[i + 1] >= lv[i] \/ lv[i + 1] >= lv[i + 2]

\* levels[i] >= levels[i - 1] and levels[i] >= levels[i + 1]
IsHigh(lv, i) == lv[i + 1] >= lv[i] /\ lv[i + 1] >= lv[i + 2]

\* variant: a low as soon as either neighbour is not lower
IsLowEither(lv, i) == lv[i + 1] <= lv[i] \/ lv[i + 1] <= lv[i + 2]

\* levels[i] <= levels[i - 1] and levels[i] <= levels[i + 1]
IsLow(lv, i) == lv[i + 1] <= lv[i] /\ lv[i + 1] <= lv[i + 2]

\* variant: the low test first
ScanAtLowFirst(tm, lv, i) ==
    IF IsLow(lv, i)
    THEN <<[time |-> tm[i + 1], height |-> lv[i + 1], type |-> "low"]>>
    ELSE IF IsHigh(lv, i)
    THEN <<[time |-> tm[i + 1], height |-> lv[i + 1], type |-> "high"]>>
    ELSE <<>>

\* the loop body at index i: the events it appends
ScanAt(tm, lv, i) ==
    IF IsHigh(lv, i)
    THEN <<[time |-> tm[i + 1], height |-> lv[i + 1], type |-> "high"]>>
    ELSE IF IsLow(lv, i)
    THEN <<[time |-> tm[i + 1], height |-> lv[i + 1], type |-> "low"]>>
    ELSE <<>>

\* range(1, len(levels) - 1) has run out at i
ScanOver(lv, i) == i >= Len(lv) - 1

\* the events the loop bodies at indices lo .. hi - 1 append, in index order
\* (the range is halved so that the evaluation stays shallow)
RECURSIVE ScanRange(_, _, _, _)
ScanRange(tm, lv, lo, hi) ==
    IF lo >= hi THEN <<>>
    ELSE IF hi = lo + 1 THEN ScanAt(tm, lv, lo)
    ELSE LET mid == (lo + hi) \div 2
         IN  ScanRange(tm, lv, lo, mid) \o ScanRange(tm, lv, mid, hi)

\* for i in range(1, len(levels) - 1): the whole loop
ExtremumScan(tm, lv) == ScanRange(tm, lv, 1, Len(lv) - 1)

\* variant: two samples past the last full day
ScannedSamplesTwoMore(days) == days * HoursPerDay + 2

\* hours = days * 24; _sine_wave_tide(hours + 1, start_dt)
ScannedSamples(days) == days * HoursPerDay + 1

_find_synthetic_extremes(days, start_dt) ==
    LET tide == _sine_wave_tide(ScannedSamples(days), start_dt)
    IN  ExtremumScan(tide.time, tide.sea_level)

----------------------------------------------------------------------------
(* The two entry points *)

\* variant: the upper bound excluded
HoursAcceptedBelowMax(hours) == MinHours <= hours /\ hours < MaxHours

\* assert 1 <= hours <= 240
HoursAccepted(hours) == MinHours <= hours /\ hours <= MaxHours

\* assert 1 <= days <= 10
DaysAccepted(days) == MinDays <= days /\ days <= MaxDays

\* the params of get_tide_sea_level
SeaLevelParams(la, lo, hours, t) ==
    [lat |-> la, lng |-> lo,
     start |-> strftime_hour(t),
     end   |-> strftime_hour(t + hours * SecondsPerHour)]

\* the params of get_tide_extremes
ExtremesParams(la, lo, days, t) ==
    [lat |-> la, lng |-> lo,
     start |-> strftime_date(t),
     end   |-> strftime_date(t + days * SecondsPerDay)]

\* variant: one entry more than asked for
TruncateOneMore(xs, hours) == SubSeq(xs, 1, Min(hours + 1, Len(xs)))

\* xs[:hours], for hours >= 1
Truncate(xs, hours) == SubSeq(xs, 1, Min(hours, Len(xs)))

\* the value get_tide_sea_level builds from the provider's data
SeaLevelOf(data, hours) ==
    [time      |-> Truncate([k \in 1..Len(data) |-> data[k].time], hours),
     sea_level |-> Truncate([k \in 1..Len(data) |-> data[k].sg], hours)]

\* variant: every client error taken for the quota signal
IsAnyClientError(code) == 400 <= code /\ code < 500

\* e.response.status_code == 402
IsPaymentRequired(code) == code = PaymentRequired

\* variant: the clock read again in the except branch
FallbackStartReread == clock

\* the start the fallback is computed from: the call's own now
FallbackStart == now

----------------------------------------------------------------------------
(* The provider and the callers *)

Coordinates == {<<55, 12>>, <<-33, 151>>}

HoursArgs ==
    ((MinHours - ArgSlack)..(MinHours + ArgSlack)) \cup {HoursPerDay}
        \cup ((MaxHours - ArgSlack)..(MaxHours + ArgSlack))

DaysArgs == (MinDays - ArgSlack)..(MaxDays + ArgSlack)

\* r.raise_for_status() raises for these
ErrorStatuses == {400, 401, PaymentRequired, 403, 429, 500, 503}

TickSeconds == SecondsPerHour \div 2

Instants == {ClockStart + k * TickSeconds : k \in 0..MaxTicks}

SeqsUpTo(S, n) == UNION {[1..m -> S] : m \in 0..n}

\* the rows of a sea-level answer: hourly from the requested start
SeaLevelData(t, sgs) ==
    [k \in 1..Len(sgs) |->
        [time |-> isoformat(SampleTime(t - (t % SecondsPerHour), k - 1)), sg |-> sgs[k]]]

\* the rows of an extremes answer
ExtremesData(t, kinds) ==
    [k \in 1..Len(kinds) |->
        [time |-> isoformat(SampleTime(t, 6 * k)), height |-> 0, type |-> kinds[k]]]

----------------------------------------------------------------------------
(* Initial state and actions *)

CallIdle ==
    /\ pc = "idle" /\ op = "none"
    /\ lat = 0 /\ lon = 0 /\ arg = 0 /\ now = 0
    /\ params = <<>>
    /\ requests = 0 /\ answer = "none" /\ status = 0 /\ rows = 0
    /\ outcome = "none"
    /\ result = <<>>

ScanOff ==
    /\ levels = <<>> /\ times = <<>> /\ idx = 0 /\ extremes = <<>>
    /\ scanPc = "off"

Init ==
    /\ clock = ClockStart
    /\ CallIdle
    /\ ScanOff

\* time passes, between calls and while a request is in flight
Tick ==
    /\ pc \in {"idle", "sea_level_request", "extremes_request"}
    /\ clock < ClockStart + MaxTicks * TickSeconds
    /\ clock' = clock + TickSeconds
    /\ UNCHANGED <<pc, op, lat, lon, arg, now, params, requests, answer, status, rows,
                   outcome, result>>
    /\ UNCHANGED scanVars

\* get_tide_sea_level up to the GET of _request
CallSeaLevel ==
    \E c \in Coordinates, hours \in HoursArgs :
        /\ pc = "idle"
        /\ op' = "get_tide_sea_level"
        /\ lat' = c[1] /\ lon' = c[2] /\ arg' = hours
        /\ IF HoursAccepted(hours)
           THEN /\ now' = clock
                /\ params' = SeaLevelParams(c[1], c[2], hours, clock)
                /\ requests' = requests + 1
                /\ pc' = "sea_level_request"
                /\ outcome' = outcome
           ELSE /\ outcome' = "AssertionError"
                /\ pc' = "done"
                /\ UNCHANGED <<now, params, requests>>
        /\ UNCHANGED <<clock, answer, status, rows, result>>
        /\ UNCHANGED scanVars

\* the provider answers 2xx with data: the try branch returns
SeaLevelAnswer ==
    \E sgs \in SeqsUpTo({0, 1}, MaxRows) :
        /\ pc = "sea_level_request"
        /\ answer' = "data"
        /\ status' = 200
        /\ rows' = Len(sgs)
        /\ result' = SeaLevelOf(SeaLevelData(now, sgs), arg)
        /\ outcome' = "returned"
        /\ pc' = "done"
        /\ UNCHANGED <<clock, op, lat, lon, arg, now, params, requests>>
        /\ UNCHANGED scanVars

\* the provider answers 4xx or 5xx: raise_for_status raises HTTPError
SeaLevelHTTPError ==
    \E code \in ErrorStatuses :
        /\ pc = "sea_level_request"
        /\ answer' = "http_error"
        /\ status' = code
        /\ IF IsPaymentRequired(code)
           THEN /\ result' = _sine_wave_tide(arg, FallbackStart)
                /\ outcome' = "returned"
           ELSE /\ result' = result
                /\ outcome' = "HTTPError"
        /\ pc' = "done"
        /\ UNCHANGED <<clock, op, lat, lon, arg, now, params, requests, rows>>
        /\ UNCHANGED scanVars

\* requests.get raises ConnectionError: not an HTTPError, so not caught
ConnectionFails ==
    /\ pc \in {"sea_level_request", "extremes_request"}
    /\ answer' = "connection_error"
    /\ outcome' = "ConnectionError"
    /\ pc' = "done"
    /\ UNCHANGED <<clock, op, lat, lon, arg, now, params, requests, status, rows, result>>
    /\ UNCHANGED scanVars

\* requests.get raises Timeout once timeout=10 seconds passed without an answer
RequestTimesOut ==
    /\ pc \in {"sea_level_request", "extremes_request"}
    /\ clock - now >= RequestTimeout
    /\ answer' = "timeout"
    /\ outcome' = "Timeout"
    /\ pc' = "done"
    /\ UNCHANGED <<clock, op, lat, lon, arg, now, params, requests, status, rows, result>>
    /\ UNCHANGED scanVars

\* get_tide_extremes up to the GET of _request
CallExtremes ==
    \E c \in Coordinates, days \in DaysArgs :
        /\ pc = "idle"
        /\ op' = "get_tide_extremes"
        /\ lat' = c[1] /\ lon' = c[2] /\ arg' = days
        /\ IF DaysAccepted(days)
           THEN /\ now' = clock
                /\ params' = ExtremesParams(c[1], c[2], days, clock)
                /\ requests' = requests + 1
                /\ pc' = "extremes_request"
                /\ outcome' = outcome
           ELSE /\ outcome' = "AssertionError"
                /\ pc' = "done"
                /\ UNCHANGED <<now, params, requests>>
        /\ UNCHANGED <<clock, answer, status, rows, result>>
        /\ UNCHANGED scanVars

\* the provider answers 2xx with data: returned as it is
ExtremesAnswer ==
    \E kinds \in SeqsUpTo({"high", "low"}, MaxRows) :
        /\ pc = "extremes_request"
        /\ answer' = "data"
        /\ status' = 200
        /\ rows' = Len(kinds)
        /\ result' = ExtremesData(now, kinds)
        /\ outcome' = "returned"
        /\ pc' = "done"
        /\ UNCHANGED <<clock, op, lat, lon, arg, now, params, requests>>
        /\ UNCHANGED scanVars

\* the provider answers 4xx or 5xx
ExtremesHTTPError ==
    \E code \in ErrorStatuses :
        /\ pc = "extremes_request"
        /\ answer' = "http_error"
        /\ status' = code
        /\ IF IsPaymentRequired(code)
           THEN /\ result' = _find_synthetic_extremes(arg, FallbackStart)
                /\ outcome' = "returned"
           ELSE /\ result' = result
                /\ outcome' = "HTTPError"
        /\ pc' = "done"
        /\ UNCHANGED <<clock, op, lat, lon, arg, now, params, requests, rows>>
        /\ UNCHANGED scanVars

\* the call is over; the next one starts from nothing
Return ==
    /\ pc = "done"
    /\ pc' = "idle" /\ op' = "none"
    /\ lat' = 0 /\ lon' = 0 /\ arg' = 0 /\ now' = 0
    /\ params' = <<>>
    /\ requests' = 0 /\ answer' = "none" /\ status' = 0 /\ rows' = 0
    /\ outcome' = "none"
    /\ result' = <<>>
    /\ UNCHANGED clock
    /\ UNCHANGED scanVars

Next ==
    \/ Tick
    \/ CallSeaLevel
    \/ SeaLevelAnswer
    \/ SeaLevelHTTPError
    \/ CallExtremes
    \/ ExtremesAnswer
    \/ ExtremesHTTPError
    \/ ConnectionFails
    \/ RequestTimesOut
    \/ Return

Spec == Init /\ [][Next]_vars

----------------------------------------------------------------------------
(* _sine_wave_tide on its own: every sample count the two callers can ask  *)
(* for (0 .. 241), from every instant of the clock.                        *)

InitWave ==
    /\ clock \in Instants
    /\ pc = "idle" /\ op = "_sine_wave_tide"
    /\ lat = 0 /\ lon = 0
    /\ arg \in 0..ScannedSamples(MaxDays)
    /\ now = clock
    /\ params = <<>>
    /\ requests = 0 /\ answer = "none" /\ status = 0 /\ rows = 0
    /\ outcome = "none"
    /\ result = <<>>
    /\ ScanOff

Synthesize ==
    /\ pc = "idle" /\ op = "_sine_wave_tide"
    /\ result' = _sine_wave_tide(arg, now)
    /\ outcome' = "returned"
    /\ pc' = "done"
    /\ UNCHANGED <<clock, op, lat, lon, arg, now, params, requests, answer, status, rows>>
    /\ UNCHANGED scanVars

NextWave == Synthesize

SpecWave == InitWave /\ [][NextWave]_vars

----------------------------------------------------------------------------
(* The loop of _find_synthetic_extremes on its own, one pass of the body   *)
(* per step, over every series of at most MaxSeries samples.               *)

InitScan ==
    /\ clock = ClockStart
    /\ CallIdle
    /\ levels \in SeqsUpTo(0..MaxLevel, MaxSeries)
    /\ times = [k \in 1..Len(levels) |-> isoformat(SampleTime(ClockStart, k - 1))]
    /\ idx = 1
    /\ extremes = <<>>
    /\ scanPc = "scanning"

\* one pass of the loop body
ScanStep ==
    /\ scanPc = "scanning"
    /\ ~ScanOver(levels, idx)
    /\ extremes' = extremes \o ScanAt(times, levels, idx)
    /\ idx' = idx + 1
    /\ UNCHANGED <<levels, times, scanPc>>
    /\ UNCHANGED <<clock, pc, op, lat, lon, arg, now, params, requests, answer, status,
                   rows, outcome, result>>

\* the range has run out: return extremes
ScanReturn ==
    /\ scanPc = "scanning"
    /\ ScanOver(levels, idx)
    /\ scanPc' = "scanned"
    /\ UNCHANGED <<levels, times, idx, extremes>>
    /\ UNCHANGED <<clock, pc, op, lat, lon, arg, now, params, requests, answer, status,
                   rows, outcome, result>>

NextScan == ScanStep \/ ScanReturn

SpecScan == InitScan /\ [][NextScan]_vars

\* the loop, run step by step, returns what ExtremumScan computes
ScanLoopIsExtremumScan ==
    scanPc = "scanned" => extremes = ExtremumScan(times, levels)

----------------------------------------------------------------------------
(* Properties of the two entry points, under Spec *)

QuotaAnswered == pc = "done" /\ answer = "http_error" /\ status = PaymentRequired

SeaLevelFellBack == QuotaAnswered /\ op = "get_tide_sea_level"

ExtremesFellBack == QuotaAnswered /\ op = "get_tide_extremes"

\* C1: an HTTP 402 answer never surfaces an error.  The call returns, with
\* one outbound request in all, the synthetic wave (sea level) or the
\* synthetic extremes (extremes) computed from the very instant the request
\* window was built from.
QuotaFallsBack ==
    QuotaAnswered =>
        /\ outcome = "returned"
        /\ requests = 1
        /\ op = "get_tide_sea_level" =>
              /\ params.start = strftime_hour(now)
              /\ params.end = strftime_hour(now + arg * SecondsPerHour)
              /\ result = _sine_wave_tide(arg, now)
        /\ op = "get_tide_extremes" =>
              /\ params.start = strftime_date(now)
              /\ params.end = strftime_date(now + arg * SecondsPerDay)
              /\ result = _find_synthetic_extremes(arg, now)

\* a sea-level call fell back after the clock moved on during the request
QuotaFallsBackWitness ==
    /\ SeaLevelFellBack
    /\ clock > now
    /\ outcome = "returned"
    /\ Len(result.sea_level) = HoursPerDay

NonQuotaFailure ==
    /\ pc = "done"
    /\ \/ answer \in {"connection_error", "timeout"}
       \/ answer = "http_error" /\ status # 402

\* C2: every provider failure other than HTTP 402 (another 4xx/5xx status, a
\* network error, the timeout) reaches the caller as an error: nothing is
\* returned and the synthetic fallback is not taken.
OtherFailuresPropagate ==
    NonQuotaFailure =>
        /\ outcome \in {"HTTPError", "ConnectionError", "Timeout"}
        /\ result = <<>>
        /\ requests = 1

\* a sea-level call answered with HTTP 500 ended in the error
OtherFailuresPropagateWitness ==
    /\ pc = "done" /\ op = "get_tide_sea_level"
    /\ answer = "http_error" /\ status = 500
    /\ outcome = "HTTPError"

\* C3: hours outside [1, 240] and days outside [1, 10] fail with the
\* assertion before any request is issued; every value in range, the
\* boundaries included, passes the precondition and the request is issued.
ArgumentsChecked ==
    /\ op = "get_tide_sea_level" =>
          IF arg < 1 \/ arg > 240
          THEN outcome = "AssertionError" /\ requests = 0 /\ answer = "none"
          ELSE outcome # "AssertionError" /\ requests = 1
    /\ op = "get_tide_extremes" =>
          IF arg < 1 \/ arg > 10
          THEN outcome = "AssertionError" /\ requests = 0 /\ answer = "none"
          ELSE outcome # "AssertionError" /\ requests = 1

\* hours = 241 was rejected with no request issued
ArgumentsCheckedWitness ==
    /\ op = "get_tide_sea_level" /\ arg = 241
    /\ pc = "done" /\ outcome = "AssertionError" /\ requests = 0

SeaLevelReturned ==
    pc = "done" /\ op = "get_tide_sea_level" /\ outcome = "returned"

\* C4 as claimed: whatever number of rows the provider sent, a returned
\* sea-level value has time and sea_level arrays of exactly hours entries.
ExactlyHoursEntries ==
    SeaLevelReturned =>
        Len(result.time) = arg /\ Len(result.sea_level) = arg

\* C4 as amended: the two arrays have the same length, which is hours on the
\* fallback and min(hours, rows sent) on a live answer: never more than hours,
\* and fewer when the provider sent fewer rows.
AtMostHoursEntries ==
    SeaLevelReturned =>
        /\ Len(result.time) = Len(result.sea_level)
        /\ Len(result.time) <= arg
        /\ answer = "http_error" => Len(result.time) = arg
        /\ answer = "data" =>
              Len(result.time) = (IF rows < arg THEN rows ELSE arg)

\* a live answer of more rows than hours was cut to hours entries
AtMostHoursEntriesWitness ==
    /\ SeaLevelReturned
    /\ answer = "data" /\ rows > arg
    /\ Len(result.time) = arg

\* C5: the synthetic wave depends on absolute time only.  Sample i of the
\* wave a sea-level call fell back to has the height of sample j of any other
\* wave (h samples from t0, h small or the call's own hours) whenever the two
\* samples are of the same instant: the heights depend on neither the start,
\* the sample count nor lat and lon.
WaveOfAbsoluteTime ==
    SeaLevelFellBack =>
        \A t0 \in Instants, h \in (1..CmpHours) \cup {arg} :
            LET other == _sine_wave_tide(h, t0)
            IN  \A i \in 1..Len(result.sea_level), j \in 1..h :
                    now + (i - 1) * 3600 = t0 + (j - 1) * 3600 =>
                        result.sea_level[i] = other.sea_level[j]

\* the returned wave overlaps a wave that starts an hour later
WaveOfAbsoluteTimeWitness ==
    /\ SeaLevelFellBack
    /\ Len(result.sea_level) >= 2
    /\ now + 3600 \in Instants

\* C7: the synthetic extremes come from a scan of days*24 + 1 hourly samples
\* that leaves out the first and the last one.  Every event is at one of the
\* scanned instants strictly between now and now + days*24 hours, and a
\* sample as late as index days*24 - 1 that is a high or a low has its event.
ExtremesStrictlyInside ==
    ExtremesFellBack =>
        LET last == arg * 24
            At(k) == SineLevel(now + k * 3600)
            Turns(k) == \/ At(k) >= At(k - 1) /\ At(k) >= At(k + 1)
                        \/ At(k) <= At(k - 1) /\ At(k) <= At(k + 1)
        IN  /\ \A n \in 1..Len(result) :
                   /\ \E k \in 1..(last - 1) : result[n].time = isoformat(now + k * 3600)
                   /\ Instant(result[n].time) > now
                   /\ Instant(result[n].time) < now + last * 3600
            /\ \A k \in 1..(last - 1) :
                   Turns(k) =>
                       \E n \in 1..Len(result) : Instant(result[n].time) = now + k * 3600

\* a fallback returned events, the last of them at index days*24 - 1, the
\* last index inside the scanned window
ExtremesStrictlyInsideWitness ==
    /\ ExtremesFellBack
    /\ Len(result) >= 3
    /\ Instant(result[Len(result)].time) = now + (arg * 24 - 1) * 3600

----------------------------------------------------------------------------
(* Properties of _sine_wave_tide, under SpecWave *)

\* C6: for hours in [1, 240] and every start t0, _sine_wave_tide returns
\* exactly hours (timestamp, height) pairs; the k-th timestamp (0-based) is
\* t0 + k hours, so the timestamps start at t0 and rise by exactly one hour.
HourlySamplesFromStart ==
    (pc = "done" /\ op = "_sine_wave_tide" /\ arg >= 1 /\ arg <= 240) =>
        /\ Len(result.time) = arg
        /\ Len(result.sea_level) = arg
        /\ \A k \in 0..(arg - 1) : Instant(result.time[k + 1]) = now + k * 3600
        /\ \A k \in 1..(arg - 1) :
               Instant(result.time[k + 1]) = Instant(result.time[k]) + 3600

\* the longest accepted wave, from an instant off the full hour
HourlySamplesFromStartWitness ==
    /\ pc = "done" /\ op = "_sine_wave_tide"
    /\ arg = 240
    /\ now % 3600 # 0
    /\ Len(result.time) = 240

----------------------------------------------------------------------------
(* Properties of the extremum scan, under SpecScan *)

Scanned == scanPc = "scanned"

NonDecreasing == \A k \in 1..(Len(levels) - 1) : levels[k] <= levels[k + 1]

NonIncreasing == \A k \in 1..(Len(levels) - 1) : levels[k] >= levels[k + 1]

Increasing == \A k \in 1..(Len(levels) - 1) : levels[k] < levels[k + 1]

Decreasing == \A k \in 1..(Len(levels) - 1) : levels[k] > levels[k + 1]

NoPlateau == \A k \in 1..(Len(levels) - 1) : levels[k] # levels[k + 1]

EventsAlternate ==
    (Scanned /\ NoPlateau) =>
        \A n \in 1..(Len(extremes) - 1) : extremes[n].type # extremes[n + 1].type

\* a series without plateau yielded three events
EventsAlternateWitness ==
    /\ Scanned /\ NoPlateau
    /\ Len(extremes) >= 3

\* the events at 0-based index i
EventsAt(i) == {n \in 1..Len(extremes) : extremes[n].time = times[i + 1]}

\* C10: every interior index i (1 <= i <= N-2) yields at most one event: a
\* "high" iff value[i] >= value[i-1] and value[i] >= value[i+1], a "low" iff
\* that test fails and value[i] <= value[i-1] and value[i] <= value[i+1].  A
\* sample equal to both neighbours is a "high"; events come in index order,
\* and none is at the first or the last index.
PointwiseClassification ==
    Scanned =>
        /\ \A i \in 1..(Len(levels) - 2) :
               LET high == levels[i + 1] >= levels[i] /\ levels[i + 1] >= levels[i + 2]
                   low  == levels[i + 1] <= levels[i] /\ levels[i + 1] <= levels[i + 2]
               IN  /\ Cardinality(EventsAt(i)) <= 1
                   /\ (\E n \in EventsAt(i) : extremes[n].type = "high") <=> high
                   /\ (\E n \in EventsAt(i) : extremes[n].type = "low") <=> (~high /\ low)
                   /\ \A n \in EventsAt(i) : extremes[n].height = levels[i + 1]
        /\ \A n \in 1..Len(extremes) :
               \E i \in 1..(Len(levels) - 2) : n \in EventsAt(i)
        /\ \A n \in 1..(Len(extremes) - 1) :
               Instant(extremes[n].time) < Instant(extremes[n + 1].time)

\* a sample equal to both neighbours was classified "high", after a "low"
PointwiseClassificationWitness ==
    /\ Scanned
    /\ \E i \in 2..(Len(levels) - 2) :
           /\ levels[i + 1] = levels[i] /\ levels[i + 1] = levels[i + 2]
           /\ \E n \in EventsAt(i) : extremes[n].type = "high"
    /\ \E n \in 1..Len(extremes) : extremes[n].type = "low"

============================================================================
